---- MODULE Spec2Model ----
(***************************************************************************)
(* Adaptive quiz difficulty selection (gamify_v2): the learner profile,    *)
(* the attempt history, the Q-table and the policies that read them.       *)
(*                                                                         *)
(* Numbers.  XP amounts are Python ints and are modelled exactly.          *)
(* Q-values are Python floats; they are modelled in fixed point, as        *)
(* integer multiples of 1/QScale, with the update computed by floored      *)
(* integer division.  Percentages and accuracies are kept as exact         *)
(* fractions (numerator, denominator) and compared by cross                *)
(* multiplication; round(x, k) is modelled as round-half-to-even.          *)
(***************************************************************************)
EXTENDS Integers, Sequences, FiniteSets, TLC

VARIABLES
    level,            \* StudentProfile.level
    xp,               \* StudentProfile.xp
    total_xp,         \* StudentProfile.total_xp
    streak_correct,   \* StudentProfile.streak_correct
    last_difficulty,  \* StudentProfile.last_difficulty
    attempts,         \* AttemptLog rows of the learner, oldest first
    qtable,           \* QTableEntry rows: <<state_hash, action>> -> q_value
    qlog,             \* the newest QLearningLog row (none: empty sequence)
    resp,             \* what the last handler answered
    direct_calls,     \* add_xp calls, admin edits and failed writes so far
    workers,          \* the Q updates in progress, one per worker
    qbase,            \* the Q-table when the updates in progress began
    updates           \* Q updates begun so far

vars == <<level, xp, total_xp, streak_correct, last_difficulty, attempts, qtable,
          qlog, resp, direct_calls, workers, qbase, updates>>

\* the variables only the concurrent Q updates change
conc_vars == <<workers, qbase, updates>>

-----------------------------------------------------------------------------
(* Bounds of the model *)

MaxAttempts == 3          \* AttemptLog rows a behaviour may create
MaxDirectCalls == 3       \* add_xp calls, admin edits and failed writes of a behaviour
MaxOps == 4               \* submissions, add_xp calls and admin edits together
MaxUpdates == 2           \* Q updates the workers may begin
MaxHistLen == 11          \* longest history at one difficulty given to a policy
MaxMixedLen == 3          \* longest history over all difficulties given to a policy
MaxRunLen == 5            \* longest run of equal results in a two-run history
MaxFaultHistLen == 2      \* longest history of a call during which something fails
MaxWrongCount == 40       \* largest wrong_count given to get_hint_for_question

(* Program constants *)

QScale == 10 * 10 * 10    \* fixed-point denominator of a Q-value
LEARNING_RATE_TENTHS == 1
DISCOUNT_FACTOR_TENTHS == 9
MAX_Q_VALUE == 10
MIN_Q_VALUE == -5
BASE_CORRECT_REWARD == 10
BASE_INCORRECT_PENALTY == -2
PERFORMANCE_WINDOW == 10
QUICK_CHECK_WINDOW == 5
MAX_CONSECUTIVE_WRONG == 3

LEVEL_CHOICES == <<"beginner", "intermediate", "advanced", "expert">>
\* QLearningEngine.ACTIONS (ACTIONS is a reserved word)
EngineActions == <<"easy", "medium", "hard">>

ALLOWED_ACTIONS ==
    [l \in {"beginner", "intermediate", "advanced", "expert"} |->
        CASE l = "beginner" -> <<"easy", "medium">>
          [] l = "intermediate" -> <<"easy", "medium", "hard">>
          [] l = "advanced" -> <<"medium", "hard">>
          [] l = "expert" -> <<"hard">>]

\* The question bank: question id -> difficulty.
QuestionBank == <<"easy", "medium", "hard">>

\* time_spent values a request carries (seconds)
TimeSpentChoices == {30}

\* amounts add_xp is called with
AddXpAmounts == {-30, 200, 1000}

\* wrong_attempts value a request carries: every submission is the first
\* attempt at its question
WrongAttemptsChoices == {0}

-----------------------------------------------------------------------------
(* Arithmetic helpers *)

Range(s) == {s[i] : i \in 1..Len(s)}

Max2(a, b) == IF a >= b THEN a ELSE b
Min2(a, b) == IF a <= b THEN a ELSE b

\* Python round(n/d) for d > 0: round half to even.
RoundHalfEven(n, d) ==
    LET q == n \div d
        r == n % d
    IN  IF 2 * r < d THEN q
        ELSE IF 2 * r > d THEN q + 1
        ELSE IF q % 2 = 0 THEN q ELSE q + 1

\* queryset.order_by('-created_at')[:n] : the n newest rows, newest first.
NewestFirst(s, n) ==
    LET k == Min2(n, Len(s))
    IN  [i \in 1..k |-> s[Len(s) + 1 - i]]

\* AttemptLog.objects.filter(user=user, question__difficulty=d)
ByDifficulty(s, d) == SelectSeq(s, LAMBDA a : a.difficulty = d)

CountCorrect(s) == Cardinality({i \in 1..Len(s) : s[i].is_correct})

RECURSIVE SumTimes(_)
SumTimes(s) == IF s = <<>> THEN 0 ELSE Head(s).time_spent + SumTimes(Tail(s))

\* number of leading rows of s whose is_correct equals b
RECURSIVE LeadingRun(_, _)
LeadingRun(s, b) ==
    IF s = <<>> \/ Head(s).is_correct # b THEN 0
    ELSE 1 + LeadingRun(Tail(s), b)

-----------------------------------------------------------------------------
(* LevelTransitionPolicy (qlearning/policies.py) *)

\* compute_window_stats: <<correct_count, total_count>> of the last
\* `window` attempts at one difficulty.
compute_window_stats(hist, difficulty, window) ==
    LET recent_attempts == NewestFirst(ByDifficulty(hist, difficulty), window)
    IN  <<CountCorrect(recent_attempts), Len(recent_attempts)>>

\* The loop of get_consecutive_performance over attempts_list, from row i
\* on, with the two counters it carries; `break` ends the recursion.
RECURSIVE ConsecutiveLoop(_, _, _, _)
ConsecutiveLoop(attempts_list, i, consecutive_correct, consecutive_wrong) ==
    IF i > Len(attempts_list)
    THEN <<consecutive_correct, consecutive_wrong>>
    ELSE IF attempts_list[i].is_correct
         THEN IF consecutive_wrong = 0
              THEN ConsecutiveLoop(attempts_list, i + 1,
                                   consecutive_correct + 1, consecutive_wrong)
              ELSE <<consecutive_correct, consecutive_wrong>>
         ELSE IF consecutive_correct = 0
              THEN ConsecutiveLoop(attempts_list, i + 1,
                                   consecutive_correct, consecutive_wrong + 1)
              ELSE <<consecutive_correct, consecutive_wrong>>

\* get_consecutive_performance reading the oldest rows first
get_consecutive_performance_oldest_first(hist, difficulty, window) ==
    LET at_difficulty == ByDifficulty(hist, difficulty)
        attempts_list == SubSeq(at_difficulty, 1, Min2(window, Len(at_difficulty)))
        counts == ConsecutiveLoop(attempts_list, 1, 0, 0)
    IN  IF attempts_list = <<>>
        THEN [consecutive_correct |-> 0, consecutive_wrong |-> 0,
              total_checked |-> 0, last_result |-> "None"]
        ELSE [consecutive_correct |-> counts[1],
              consecutive_wrong |-> counts[2],
              total_checked |-> Len(attempts_list),
              last_result |-> IF attempts_list[1].is_correct
                              THEN "True" ELSE "False"]

\* get_consecutive_performance(user, difficulty, window)
get_consecutive_performance(hist, difficulty, window) ==
    LET attempts_list == NewestFirst(ByDifficulty(hist, difficulty), window)
        counts == ConsecutiveLoop(attempts_list, 1, 0, 0)
    IN  IF attempts_list = <<>>
        THEN [consecutive_correct |-> 0, consecutive_wrong |-> 0,
              total_checked |-> 0, last_result |-> "None"]
        ELSE [consecutive_correct |-> counts[1],
              consecutive_wrong |-> counts[2],
              total_checked |-> Len(attempts_list),
              last_result |-> IF attempts_list[1].is_correct
                              THEN "True" ELSE "False"]

\* can_level_up with strict comparisons: a learner exactly on a threshold
\* is not eligible.
can_level_up_strict(current_level, current_xp) ==
    IF current_level = "beginner" /\ current_xp > 200
    THEN <<TRUE, "intermediate">>
    ELSE IF current_level = "intermediate" /\ current_xp > 500
    THEN <<TRUE, "advanced">>
    ELSE IF current_level = "advanced" /\ current_xp > 800
    THEN <<TRUE, "expert">>
    ELSE <<FALSE, "None">>

\* can_level_up(profile): <<can_level_up, target_level>>
can_level_up(current_level, current_xp) ==
    IF current_level = "beginner" /\ current_xp >= 200
    THEN <<TRUE, "intermediate">>
    ELSE IF current_level = "intermediate" /\ current_xp >= 500
    THEN <<TRUE, "advanced">>
    ELSE IF current_level = "advanced" /\ current_xp >= 800
    THEN <<TRUE, "expert">>
    ELSE <<FALSE, "None">>

\* The checks of should_level_down with a strict accuracy comparison
\* (correct / total < threshold).
LevelDownChecks_strict(hist, difficulty, threshold_tenths, target) ==
    LET consecutive == get_consecutive_performance(hist, difficulty, QUICK_CHECK_WINDOW)
        stats == compute_window_stats(hist, difficulty, PERFORMANCE_WINDOW)
        correct == stats[1]
        total == stats[2]
    IN  IF consecutive.consecutive_wrong >= MAX_CONSECUTIVE_WRONG
        THEN <<TRUE, target>>
        ELSE IF total >= PERFORMANCE_WINDOW /\ correct * 10 < threshold_tenths * total
        THEN <<TRUE, target>>
        ELSE <<FALSE, "None">>

\* The two checks should_level_down makes on one difficulty: the quick
\* check on consecutive wrong answers, then the windowed accuracy
\* (correct / total <= threshold, threshold in tenths).
LevelDownChecks(hist, difficulty, threshold_tenths, target) ==
    LET consecutive == get_consecutive_performance(hist, difficulty, QUICK_CHECK_WINDOW)
        stats == compute_window_stats(hist, difficulty, PERFORMANCE_WINDOW)
        correct == stats[1]
        total == stats[2]
    IN  IF consecutive.consecutive_wrong >= MAX_CONSECUTIVE_WRONG
        THEN <<TRUE, target>>
        ELSE IF total >= PERFORMANCE_WINDOW /\ correct * 10 <= threshold_tenths * total
        THEN <<TRUE, target>>
        ELSE <<FALSE, "None">>

\* EASY_HINTS (keys 1 to 3), MEDIUM_HINTS and HARD_HINTS (lists, the
\* Python index i is position i + 1), each text named by where it stands
EASY_HINTS == [i \in 1..3 |-> <<"EASY_HINTS", i>>]
MEDIUM_HINTS == <<<<"MEDIUM_HINTS", 0>>, <<"MEDIUM_HINTS", 1>>>>
HARD_HINTS == <<<<"HARD_HINTS", 0>>, <<"HARD_HINTS", 1>>>>

\* get_hint_for_question(question, wrong_count): the hint text, or "None"
get_hint_for_question(difficulty, wrong_count) ==
    IF difficulty = "easy"
    THEN IF wrong_count >= 3 THEN EASY_HINTS[3]
         ELSE IF wrong_count >= 2 THEN EASY_HINTS[2]
         ELSE IF wrong_count >= 1 THEN EASY_HINTS[1]
         ELSE "None"
    ELSE IF difficulty = "medium"
    THEN IF wrong_count >= 1
         THEN MEDIUM_HINTS[(wrong_count % Len(MEDIUM_HINTS)) + 1]
         ELSE "None"
    ELSE IF difficulty = "hard"
    THEN IF wrong_count >= 2
         THEN HARD_HINTS[(wrong_count % Len(HARD_HINTS)) + 1]
         ELSE "None"
    ELSE "None"

\* should_level_down(profile): <<should_level_down, target_level>>
should_level_down(current_level, hist) ==
    IF current_level = "beginner" THEN <<FALSE, "None">>
    ELSE IF current_level = "intermediate"
    THEN LevelDownChecks(hist, "medium", 3, "beginner")
    ELSE IF current_level = "advanced"
    THEN LevelDownChecks(hist, "hard", 5, "intermediate")
    ELSE <<FALSE, "None">>

-----------------------------------------------------------------------------
(* QLearningEngine (qlearning/engine.py): action selection *)

\* EPSILON_BY_LEVEL, in thousandths
EPSILON_BY_LEVEL ==
    [l \in {"beginner", "intermediate", "advanced", "expert"} |->
        CASE l = "beginner" -> 250
          [] l = "intermediate" -> 150
          [] l = "advanced" -> 100
          [] l = "expert" -> 50]

\* The loop of get_dynamic_epsilon over difficulty_stats (easy, medium,
\* hard, in that order), from position i on; result in thousandths.
RECURSIVE DynamicEpsilonLoop(_, _, _)
DynamicEpsilonLoop(hist, base_epsilon, i) ==
    IF i > Len(EngineActions) THEN base_epsilon
    ELSE LET diff_stats == get_consecutive_performance(hist, EngineActions[i], 5)
         IN  IF diff_stats.consecutive_wrong >= 3
             THEN base_epsilon \div 2
             ELSE IF diff_stats.consecutive_correct >= 5
             THEN Min2((base_epsilon * 12) \div 10, 300)
             ELSE DynamicEpsilonLoop(hist, base_epsilon, i + 1)

get_dynamic_epsilon(current_level, hist) ==
    DynamicEpsilonLoop(hist, EPSILON_BY_LEVEL[current_level], 1)

\* get_allowed_actions(user, current_difficulty); current_difficulty is a
\* difficulty or "None".
get_allowed_actions(current_level, hist, current_difficulty) ==
    LET allowed == ALLOWED_ACTIONS[current_level]
    IN  IF current_difficulty = "None" THEN allowed
        ELSE IF get_consecutive_performance(hist, current_difficulty, 5).consecutive_wrong >= 2
             THEN CASE current_difficulty = "easy" -> <<"easy">>
                    [] current_difficulty = "medium" -> <<"easy", "medium">>
                    [] current_difficulty = "hard" -> <<"medium", "hard">>
                    [] OTHER -> allowed
             ELSE allowed

\* q_values[action] of choose_action: the stored value, 0.0 when the entry
\* does not exist.
QValueOrZero(q, state_hash, action) ==
    IF <<state_hash, action>> \in DOMAIN q THEN q[<<state_hash, action>>] ELSE 0

\* the last action, in the order of allowed_actions, whose value is maximal
BestAction_last(q, state_hash, allowed_actions) ==
    LET best == CHOOSE i \in 1..Len(allowed_actions) :
                    /\ \A j \in 1..Len(allowed_actions) :
                          QValueOrZero(q, state_hash, allowed_actions[j])
                              <= QValueOrZero(q, state_hash, allowed_actions[i])
                    /\ \A j \in (i + 1)..Len(allowed_actions) :
                          QValueOrZero(q, state_hash, allowed_actions[j])
                              < QValueOrZero(q, state_hash, allowed_actions[i])
    IN  allowed_actions[best]

\* max(q_values, key=q_values.get): the first action, in the order of
\* allowed_actions, whose value is maximal.
BestAction(q, state_hash, allowed_actions) ==
    LET best == CHOOSE i \in 1..Len(allowed_actions) :
                    /\ \A j \in 1..Len(allowed_actions) :
                          QValueOrZero(q, state_hash, allowed_actions[j])
                              <= QValueOrZero(q, state_hash, allowed_actions[i])
                    /\ \A j \in 1..(i - 1) :
                          QValueOrZero(q, state_hash, allowed_actions[j])
                              < QValueOrZero(q, state_hash, allowed_actions[i])
    IN  allowed_actions[best]

\* choose_action without the single-action return, exploring over every
\* action of ACTIONS instead of the allowed ones.
choose_action_unrestricted(current_level, hist, q, state_hash, epsilon, current_difficulty, rand_val, pick) ==
    LET allowed_actions == get_allowed_actions(current_level, hist, current_difficulty)
    IN  IF rand_val < epsilon
        THEN EngineActions[(pick % Len(EngineActions)) + 1]
        ELSE BestAction(q, state_hash, allowed_actions)

\* choose_action.  epsilon and rand_val are in thousandths; pick is the
\* index random.choice draws (taken modulo the number of allowed actions).
choose_action(current_level, hist, q, state_hash, epsilon, current_difficulty, rand_val, pick) ==
    LET allowed_actions == get_allowed_actions(current_level, hist, current_difficulty)
    IN  IF Len(allowed_actions) = 1 THEN allowed_actions[1]
        ELSE IF rand_val < epsilon
        THEN allowed_actions[(pick % Len(allowed_actions)) + 1]
        ELSE BestAction(q, state_hash, allowed_actions)

\* DEFAULT_EPSILON, in thousandths
DEFAULT_EPSILON == 150

\* "epsilon is None"
NoEpsilon == -1

\* The operators below take the set of failures that strike one
\* choose_action call: "history" (every query of the attempt history
\* raises), "qtable" (every QTableEntry query raises something other than
\* DoesNotExist), "decision_log" and "adaptation_log" (the create() of
\* that log row raises).

\* get_dynamic_epsilon under faults: the bare except returns DEFAULT_EPSILON.
\* struck tells whether a query failed.
get_dynamic_epsilon_faulty(faults, current_level, hist) ==
    IF "history" \in faults
    THEN [value |-> DEFAULT_EPSILON, struck |-> TRUE]
    ELSE [value |-> get_dynamic_epsilon(current_level, hist), struck |-> FALSE]

\* get_allowed_actions under faults: the history is read only when a
\* current difficulty is given; the bare except returns ACTIONS.
get_allowed_actions_faulty(faults, current_level, hist, current_difficulty) ==
    IF "history" \in faults /\ current_difficulty # "None"
    THEN [value |-> EngineActions, struck |-> TRUE]
    ELSE [value |-> get_allowed_actions(current_level, hist, current_difficulty),
          struck |-> FALSE]

\* log_decision without its try/except: a failing create() raises.
log_decision_unguarded(faults, row) ==
    IF "decision_log" \in faults
    THEN [raised |-> TRUE, rows |-> <<>>, struck |-> TRUE]
    ELSE [raised |-> FALSE, rows |-> <<row>>, struck |-> FALSE]

\* log_decision: the row is created; a failing create() is caught and
\* printed.
log_decision(faults, row) ==
    IF "decision_log" \in faults
    THEN [raised |-> FALSE, rows |-> <<>>, struck |-> TRUE]
    ELSE [raised |-> FALSE, rows |-> <<row>>, struck |-> FALSE]

\* log_adaptation: nothing when the difficulty does not change; otherwise
\* the row is created and a failing create() is caught and printed.
log_adaptation(faults, old_difficulty, new_difficulty) ==
    IF old_difficulty = new_difficulty
    THEN [raised |-> FALSE, rows |-> <<>>, struck |-> FALSE]
    ELSE IF "adaptation_log" \in faults
    THEN [raised |-> FALSE, rows |-> <<>>, struck |-> TRUE]
    ELSE [raised |-> FALSE,
          rows |-> <<[old_difficulty |-> old_difficulty,
                      new_difficulty |-> new_difficulty]>>,
          struck |-> FALSE]

\* One choose_action call under faults: whether an exception leaves the
\* call, the action returned otherwise ("none" when it raised), the log
\* rows written, and the faults that struck an operation the call made.
choose_action_outcome(faults, current_level, hist, q, state_hash, epsilon, current_difficulty, rand_val, pick) ==
    LET eps == IF epsilon = NoEpsilon
               THEN get_dynamic_epsilon_faulty(faults, current_level, hist)
               ELSE [value |-> epsilon, struck |-> FALSE]
        allowed == get_allowed_actions_faulty(faults, current_level, hist, current_difficulty)
        allowed_actions == allowed.value
        history_struck == IF eps.struck \/ allowed.struck THEN {"history"} ELSE {}
        exploring == rand_val < eps.value
        chosen_action == IF exploring
                         THEN allowed_actions[(pick % Len(allowed_actions)) + 1]
                         ELSE BestAction(q, state_hash, allowed_actions)
        best_action == BestAction(q, state_hash, allowed_actions)
        decision == log_decision(faults,
                        [decision_type |-> IF exploring THEN "exploration" ELSE "exploitation",
                         action_chosen |-> chosen_action,
                         is_optimal |-> (~exploring \/ chosen_action = best_action)])
        adaptation == IF current_difficulty # "None" /\ chosen_action # current_difficulty
                      THEN log_adaptation(faults, current_difficulty, chosen_action)
                      ELSE [raised |-> FALSE, rows |-> <<>>, struck |-> FALSE]
    IN  IF Len(allowed_actions) = 1
        THEN [raised |-> FALSE, result |-> allowed_actions[1],
              decision_rows |-> <<>>, adaptation_rows |-> <<>>,
              struck |-> history_struck]
        ELSE IF "qtable" \in faults
        THEN [raised |-> TRUE, result |-> "none",
              decision_rows |-> <<>>, adaptation_rows |-> <<>>,
              struck |-> history_struck \cup {"qtable"}]
        ELSE IF decision.raised /\ ~exploring
        THEN [raised |-> TRUE, result |-> "none",
              decision_rows |-> <<>>, adaptation_rows |-> <<>>,
              struck |-> history_struck \cup {"decision_log"}]
        ELSE [raised |-> FALSE, result |-> chosen_action,
              decision_rows |-> decision.rows,
              adaptation_rows |-> adaptation.rows,
              struck |-> history_struck
                            \cup (IF decision.struck THEN {"decision_log"} ELSE {})
                            \cup (IF adaptation.struck THEN {"adaptation_log"} ELSE {})]

-----------------------------------------------------------------------------
(* XP of one attempt *)

\* QuizService.calculate_attempt_xp(...)['final_xp']:
\* round(base_reward * repetition_multiplier * difficulty_multiplier + time_bonus),
\* computed over the common denominator 6000.
service_final_xp(hist, question, is_correct, time_spent) ==
    LET previous_attempts == Cardinality({i \in 1..Len(hist) : hist[i].question = question})
        base_reward == IF is_correct THEN BASE_CORRECT_REWARD ELSE BASE_INCORRECT_PENALTY
        repetition_tenths == IF previous_attempts = 0 THEN 10
                             ELSE IF previous_attempts = 1 THEN 7
                             ELSE IF previous_attempts = 2 THEN 5
                             ELSE 3
        difficulty_tenths == CASE QuestionBank[question] = "easy" -> 10
                               [] QuestionBank[question] = "medium" -> 15
                               [] QuestionBank[question] = "hard" -> 20
        time_bonus_6000 == IF previous_attempts = 0 /\ time_spent <= 60
                           THEN (120 - time_spent) * 100 ELSE 0
    IN  RoundHalfEven(base_reward * repetition_tenths * difficulty_tenths * 60
                          + time_bonus_6000, 6000)

\* QuizService._calculate_q_reward(is_correct, difficulty, streak,
\* time_spent), in thousandths.
calculate_q_reward(is_correct, difficulty, streak, time_spent) ==
    IF is_correct
    THEN LET difficulty_multiplier_tenths ==
                 CASE difficulty = "easy" -> 10
                   [] difficulty = "medium" -> 15
                   [] difficulty = "hard" -> 20
                   [] OTHER -> 10
             streak_bonus == Min2(streak * 500, 5000)
             time_bonus == IF time_spent <= 60
                           THEN 2000 - (time_spent * 1000) \div 60
                           ELSE 0
         IN  BASE_CORRECT_REWARD * difficulty_multiplier_tenths * 100
                 + streak_bonus + time_bonus
    ELSE LET difficulty_penalty_multiplier_tenths ==
                 CASE difficulty = "easy" -> 15
                   [] difficulty = "medium" -> 10
                   [] difficulty = "hard" -> 7
                   [] OTHER -> 10
         IN  BASE_INCORRECT_PENALTY * difficulty_penalty_multiplier_tenths * 100

\* RetryPolicy.BASE_RETRY_LIMITS
BASE_RETRY_LIMITS ==
    [d \in {"easy", "medium", "hard"} |->
        CASE d = "easy" -> 1
          [] d = "medium" -> 2
          [] d = "hard" -> 3]

\* get_user_statistics(user)['overall_accuracy'], in tenths of a percent:
\* round(correct / total * 100, 1) over every attempt, 0 without attempts
overall_accuracy(hist) ==
    IF hist = <<>> THEN 0 ELSE RoundHalfEven(CountCorrect(hist) * 1000, Len(hist))

\* RetryPolicy.get_max_retries(question, user)
get_max_retries(difficulty, hist) ==
    IF overall_accuracy(hist) < 500
    THEN BASE_RETRY_LIMITS[difficulty] + 1
    ELSE BASE_RETRY_LIMITS[difficulty]

\* overall_accuracy of a learner with total_attempts rows of which
\* correct_attempts are correct, in tenths of a percent
overall_accuracy_of_counts(correct_attempts, total_attempts) ==
    IF total_attempts > 0 THEN RoundHalfEven(correct_attempts * 1000, total_attempts)
    ELSE 0

\* get_max_retries for such a learner
get_max_retries_of_counts(difficulty, correct_attempts, total_attempts) ==
    IF overall_accuracy_of_counts(correct_attempts, total_attempts) < 500
    THEN BASE_RETRY_LIMITS[difficulty] + 1
    ELSE BASE_RETRY_LIMITS[difficulty]

\* should_auto_advance that advances as soon as the budget is reached
should_auto_advance_at_budget(wrong_attempts, max_retries) == wrong_attempts >= max_retries

\* RetryPolicy.should_auto_advance(wrong_attempts, max_retries)
should_auto_advance(wrong_attempts, max_retries) == wrong_attempts > max_retries

\* RetryPolicy.get_progressive_hint(question, attempt_number, max_retries):
\* the level of the hint and the show_answer flag of the returned dict
\* (the texts are left out).
get_progressive_hint(attempt_number, max_retries) ==
    LET hint_level == IF attempt_number >= max_retries + 1 THEN "answer"
                      ELSE IF attempt_number = 1 THEN "gentle"
                      ELSE IF attempt_number = 2 THEN "specific"
                      ELSE "detailed"
    IN  [level |-> hint_level,
         attempt |-> attempt_number,
         max_attempts |-> max_retries + 1,
         show_answer |-> (hint_level = "answer")]

\* question.answer_key, as the response of submit_answer carries it in
\* correct_answer (or correct_answers for the mcq_complex format)
answer_key(question) == <<"answer_key", question>>

\* RetryPolicy.get_xp_multiplier, in tenths
get_xp_multiplier(attempt_number) ==
    CASE attempt_number = 1 -> 10
      [] attempt_number = 2 -> 7
      [] attempt_number = 3 -> 5
      [] attempt_number = 4 -> 3
      [] OTHER -> 1

\* calculate_attempt_xp that scales the penalty of a wrong answer by the
\* base XP and the attempt multiplier.
retry_calculate_attempt_xp_scaled(base_xp, attempt_number, is_correct) ==
    IF ~is_correct
    THEN -((base_xp * get_xp_multiplier(attempt_number)) \div 10)
    ELSE (base_xp * get_xp_multiplier(attempt_number)) \div 10

\* RetryPolicy.calculate_attempt_xp; int() truncates, base_xp >= 0 here.
retry_calculate_attempt_xp(base_xp, attempt_number, is_correct) ==
    IF ~is_correct
    THEN IF attempt_number = 1 THEN -2 ELSE -1
    ELSE (base_xp * get_xp_multiplier(attempt_number)) \div 10

-----------------------------------------------------------------------------
(* quizzes/views.py: the state key of submit_answer *)

\* leading wrong answers of reversed(recent_attempts[:10])
StrugglingStreak(recent_attempts) ==
    LET last10 == SubSeq(recent_attempts, 1, Min2(10, Len(recent_attempts)))
        oldest_first == [i \in 1..Len(last10) |-> last10[Len(last10) + 1 - i]]
    IN  LeadingRun(oldest_first, FALSE)

\* accuracy of a list rounded to 3 places (thousandths); `dflt` when empty
AccuracyMilli(s, dflt) ==
    IF s = <<>> THEN dflt ELSE RoundHalfEven(CountCorrect(s) * 1000, Len(s))

\* easy_trend / medium_trend / hard_trend, in thousandths
DifficultyTrend(d_attempts) ==
    IF Len(d_attempts) >= 4
    THEN (CountCorrect(SubSeq(d_attempts, 1, 2))
            - CountCorrect(SubSeq(d_attempts, 3, 4))) * 500
    ELSE 0

\* performance_trend, in thousandths: accuracy of the newer half minus
\* accuracy of the older half, each 0.5 when the half is empty.
PerformanceTrend(recent_attempts) ==
    LET total_count == Len(recent_attempts)
        mid_point == total_count \div 2
        first_half == SubSeq(recent_attempts, mid_point + 1, total_count)
        second_half == SubSeq(recent_attempts, 1, mid_point)
        fn == IF first_half = <<>> THEN 1 ELSE CountCorrect(first_half) * 2
        fd == IF first_half = <<>> THEN 2 ELSE Len(first_half) * 2
        sn == IF second_half = <<>> THEN 1 ELSE CountCorrect(second_half) * 2
        sd == IF second_half = <<>> THEN 2 ELSE Len(second_half) * 2
    IN  RoundHalfEven((sn * fd - fn * sd) * 1000, sd * fd)

\* get_user_state(profile).  The MD5 digest of str(state) is modelled by
\* the state tuple itself (tagged with the function that built it), so two
\* keys are equal exactly when the hashed texts are.  hints_used counts
\* answers whose text is 'hint_used'; answer texts are not modelled and the
\* component is 0.
get_user_state(current_level, hist) ==
    LET recent_attempts == NewestFirst(hist, 30)
        easy_attempts == ByDifficulty(recent_attempts, "easy")
        medium_attempts == ByDifficulty(recent_attempts, "medium")
        hard_attempts == ByDifficulty(recent_attempts, "hard")
        times_with_values == SelectSeq(recent_attempts, LAMBDA a : a.time_spent > 0)
    IN  IF recent_attempts = <<>>
        THEN <<"get_user_state", current_level, 500, 500, 500, 500, 300, 0, 0, 0, 0, 0, 0, 0, 0>>
        ELSE <<"get_user_state", current_level,
               AccuracyMilli(recent_attempts, 0),
               AccuracyMilli(easy_attempts, 0),
               AccuracyMilli(medium_attempts, 0),
               AccuracyMilli(hard_attempts, 0),
               IF times_with_values = <<>> THEN 300
               ELSE RoundHalfEven(SumTimes(times_with_values) * 10, Len(times_with_values)),
               0,
               LeadingRun(recent_attempts, TRUE),
               PerformanceTrend(recent_attempts),
               StrugglingStreak(recent_attempts),
               DifficultyTrend(easy_attempts),
               DifficultyTrend(medium_attempts),
               DifficultyTrend(hard_attempts),
               Len(recent_attempts)>>

-----------------------------------------------------------------------------
(* quizzes/services.py: the state tuple of question selection *)

\* discretize_accuracy(acc) for acc = num / den (den > 0)
discretize_accuracy(num, den) ==
    IF num * 100 >= 90 * den THEN 3
    ELSE IF num * 100 >= 70 * den THEN 2
    ELSE IF num * 100 >= 50 * den THEN 1
    ELSE 0

discretize_experience(count) ==
    IF count = 0 THEN 0
    ELSE IF count <= 4 THEN 1
    ELSE IF count <= 9 THEN 2
    ELSE 3

discretize_consecutive(count) ==
    IF count >= 6 THEN 3
    ELSE IF count >= 4 THEN 2
    ELSE IF count >= 2 THEN 1
    ELSE 0

\* difficulty_stats[difficulty] of get_user_statistics: the window counts
\* of compute_window_stats and the runs of get_consecutive_performance
difficulty_stats(hist, difficulty) ==
    LET window_stats == compute_window_stats(hist, difficulty, PERFORMANCE_WINDOW)
        consecutive == get_consecutive_performance(hist, difficulty, 5)
    IN  [correct |-> window_stats[1], total |-> window_stats[2],
         consecutive_correct |-> consecutive.consecutive_correct,
         consecutive_wrong |-> consecutive.consecutive_wrong]

\* QuizService.state_tuple(profile).  An accuracy without attempts is 0.
state_tuple(current_level, hist, current_streak) ==
    LET easy_stats == difficulty_stats(hist, "easy")
        medium_stats == difficulty_stats(hist, "medium")
        hard_stats == difficulty_stats(hist, "hard")
        acc(stats) == IF stats.total > 0
                      THEN discretize_accuracy(stats.correct, stats.total)
                      ELSE discretize_accuracy(0, 1)
    IN  <<current_level,
          discretize_accuracy(overall_accuracy(hist), 1000),
          acc(easy_stats), acc(medium_stats), acc(hard_stats),
          discretize_experience(easy_stats.total),
          discretize_experience(medium_stats.total),
          discretize_experience(hard_stats.total),
          Min2(current_streak, 5),
          discretize_consecutive(easy_stats.consecutive_correct),
          discretize_consecutive(easy_stats.consecutive_wrong)>>

\* QLearningEngine.hash_state(state_tuple).  The MD5 digest of
\* json.dumps(state_tuple) is modelled by the tuple tagged with the
\* function that serialised it: json.dumps writes a list in brackets with
\* double-quoted strings, str() of get_user_state a tuple in parentheses
\* with single-quoted strings, so the two texts are never the same.
hash_state(state) == <<"hash_state", state>>

-----------------------------------------------------------------------------
(* The Bellman update, in fixed point *)

\* old_q - alpha * (reward + gamma * max_next_q - old_q)
BellmanUpdate_away(old_q, reward, max_next_q) ==
    old_q - (LEARNING_RATE_TENTHS
                * (reward * QScale + (DISCOUNT_FACTOR_TENTHS * max_next_q) \div 10 - old_q))
            \div 10

\* old_q + alpha * (reward + gamma * max_next_q - old_q)
BellmanUpdate(old_q, reward, max_next_q) ==
    old_q + (LEARNING_RATE_TENTHS
                * (reward * QScale + (DISCOUNT_FACTOR_TENTHS * max_next_q) \div 10 - old_q))
            \div 10

\* max(MIN_Q_VALUE, min(MAX_Q_VALUE, new_q))
Normalize(new_q) == Max2(MIN_Q_VALUE * QScale, Min2(MAX_Q_VALUE * QScale, new_q))

\* "no next state" (None) where a state key is expected
NoState == <<>>

SetMax(S) == CHOOSE m \in S : \A v \in S : v <= m

\* update_q_table: max over every stored entry of next_state, 0 when
\* there is none (or no next state).
ViewsMaxNextQ(q, next_state) ==
    LET next_entries == {k \in DOMAIN q : k[1] = next_state}
    IN  IF next_state = NoState \/ next_entries = {} THEN 0
        ELSE SetMax({q[k] : k \in next_entries})

\* update_q: max_next_q starts at 0.0 and is raised by the stored entries
\* of the allowed actions of the next state (get_allowed_actions(user)).
RECURSIVE EngineMaxNextLoop(_, _, _, _, _)
EngineMaxNextLoop(q, next_state_hash, allowed_next, i, max_next_q) ==
    IF i > Len(allowed_next) THEN max_next_q
    ELSE EngineMaxNextLoop(q, next_state_hash, allowed_next, i + 1,
            IF <<next_state_hash, allowed_next[i]>> \in DOMAIN q
            THEN Max2(max_next_q, q[<<next_state_hash, allowed_next[i]>>])
            ELSE max_next_q)

EngineMaxNextQ(q, next_state_hash, current_level, hist) ==
    IF next_state_hash = NoState THEN 0
    ELSE EngineMaxNextLoop(q, next_state_hash,
                           get_allowed_actions(current_level, hist, "None"), 1, 0)

\* The value update_q_table saves for an entry read as old_q.
ViewsNewQ(old_q, reward, max_next_q) == Normalize(BellmanUpdate(old_q, reward, max_next_q))

\* The value update_q saves for an entry read as q_value_before.
EngineNewQ(q_value_before, reward, max_next_q) == BellmanUpdate(q_value_before, reward, max_next_q)

\* QTableEntry.get_or_create_entry: the table with the row present
\* (q_value 0.0 when it had to be created).
get_or_create_entry(q, state_hash, action) ==
    IF <<state_hash, action>> \in DOMAIN q THEN q
    ELSE [k \in DOMAIN q \cup {<<state_hash, action>>} |->
            IF k \in DOMAIN q THEN q[k] ELSE 0]

\* entry.q_value = v; entry.save()
SaveEntry(q, state_hash, action, v) ==
    [k \in DOMAIN q \cup {<<state_hash, action>>} |->
        IF k = <<state_hash, action>> THEN v ELSE q[k]]

\* The QLearningLog row update_q_table creates after it saved the entry.
update_q_table_log(q, current_state, action, reward, next_state) ==
    LET q1 == get_or_create_entry(q, current_state, action)
        old_q == q1[<<current_state, action>>]
    IN  [state_hash |-> current_state, action |-> action, reward |-> reward,
         q_value_before |-> old_q,
         q_value_after |-> ViewsNewQ(old_q, reward, ViewsMaxNextQ(q1, next_state)),
         next_state_hash |-> next_state]

\* update_q_table run without interruption
update_q_table(q, current_state, action, reward, next_state) ==
    LET q1 == get_or_create_entry(q, current_state, action)
        old_q == q1[<<current_state, action>>]
    IN  SaveEntry(q1, current_state, action,
                  ViewsNewQ(old_q, reward, ViewsMaxNextQ(q1, next_state)))

-----------------------------------------------------------------------------
(* StudentProfile (accounts/models.py) and the profile part of submit_answer *)

\* add_xp that keeps the xp above the threshold after a promotion.
add_xp_keeps_remainder(current_level, current_xp, current_total, amount) ==
    LET xp1 == IF current_xp + amount < 0 THEN 0 ELSE current_xp + amount
        threshold == IF current_level = "beginner" THEN 200
                     ELSE IF current_level = "intermediate" THEN 500
                     ELSE 800
        new_level == IF current_level = "beginner" /\ xp1 >= 200 THEN "intermediate"
                     ELSE IF current_level = "intermediate" /\ xp1 >= 500 THEN "advanced"
                     ELSE IF current_level = "advanced" /\ xp1 >= 800 THEN "expert"
                     ELSE current_level
        leveled_up == new_level # current_level
    IN  [level |-> new_level,
         xp |-> IF leveled_up THEN xp1 - threshold ELSE xp1,
         total_xp |-> current_total + amount,
         leveled_up |-> leveled_up]

\* add_xp without the floor of xp at 0.
add_xp_no_floor(current_level, current_xp, current_total, amount) ==
    LET xp1 == current_xp + amount
        new_level == IF current_level = "beginner" /\ xp1 >= 200 THEN "intermediate"
                     ELSE IF current_level = "intermediate" /\ xp1 >= 500 THEN "advanced"
                     ELSE IF current_level = "advanced" /\ xp1 >= 800 THEN "expert"
                     ELSE current_level
        leveled_up == new_level # current_level
    IN  [level |-> new_level,
         xp |-> IF leveled_up THEN 0 ELSE xp1,
         total_xp |-> current_total + amount,
         leveled_up |-> leveled_up]

\* StudentProfile.add_xp(amount): the fields after the call.
add_xp(current_level, current_xp, current_total, amount) ==
    LET xp1 == IF current_xp + amount < 0 THEN 0 ELSE current_xp + amount
        new_level == IF current_level = "beginner" /\ xp1 >= 200 THEN "intermediate"
                     ELSE IF current_level = "intermediate" /\ xp1 >= 500 THEN "advanced"
                     ELSE IF current_level = "advanced" /\ xp1 >= 800 THEN "expert"
                     ELSE current_level
        leveled_up == new_level # current_level
    IN  [level |-> new_level,
         xp |-> IF leveled_up THEN 0 ELSE xp1,
         total_xp |-> current_total + amount,
         leveled_up |-> leveled_up]

\* StudentProfile.manual_level_up(): the fields after the call and the
\* pair it returns.
manual_level_up(current_level, current_xp) ==
    LET new_level == IF current_level = "beginner" /\ current_xp >= 200 THEN "intermediate"
                     ELSE IF current_level = "intermediate" /\ current_xp >= 500 THEN "advanced"
                     ELSE IF current_level = "advanced" /\ current_xp >= 800 THEN "expert"
                     ELSE "None"
    IN  IF current_level = "expert" \/ new_level = "None"
        THEN [level |-> current_level, xp |-> current_xp,
              leveled_up |-> FALSE, new_level |-> "None"]
        ELSE [level |-> new_level, xp |-> 0,
              leveled_up |-> TRUE, new_level |-> new_level]

\* submit_answer, "Update profile XP" to "Update streak": the profile
\* fields it saves.
SubmitProfile(current_level, current_xp, current_total, current_streak, adaptive_reward, is_correct) ==
    LET xp1 == IF current_xp + adaptive_reward < 0 THEN 0 ELSE current_xp + adaptive_reward
        new_level == IF current_level = "beginner" /\ xp1 >= 200 THEN "intermediate"
                     ELSE IF current_level = "intermediate" /\ xp1 >= 500 THEN "advanced"
                     ELSE IF current_level = "advanced" /\ xp1 >= 800 THEN "expert"
                     ELSE "None"
        leveled_up == new_level # "None"
    IN  [level |-> IF leveled_up THEN new_level ELSE current_level,
         xp |-> IF leveled_up THEN 0 ELSE xp1,
         total_xp |-> current_total + Max2(0, adaptive_reward),
         streak_correct |-> IF is_correct THEN current_streak + 1 ELSE 0,
         leveled_up |-> leveled_up,
         new_level |-> new_level]

\* QLearningEngine.update_q run without interruption
update_q(q, state_hash, action, reward, next_state_hash, current_level, hist) ==
    LET q1 == get_or_create_entry(q, state_hash, action)
        q_value_before == q1[<<state_hash, action>>]
    IN  SaveEntry(q1, state_hash, action,
                  EngineNewQ(q_value_before, reward,
                             EngineMaxNextQ(q1, next_state_hash, current_level, hist)))

-----------------------------------------------------------------------------
(* The handlers *)

\* The workers that run Q updates side by side.
Workers == {"w1", "w2"}

IdleWorker ==
    [pc |-> "idle", path |-> "none", state |-> NoState, action |-> "none",
     reward |-> 0, next |-> NoState, before |-> 0, max_next_q |-> 0,
     new_q |-> 0, stale |-> FALSE]

Init ==
    /\ level = "beginner"
    /\ xp = 0
    /\ total_xp = 0
    /\ streak_correct = 0
    /\ last_difficulty = "easy"
    /\ attempts = <<>>
    /\ qtable = <<>>
    /\ qlog = <<>>
    /\ resp = [op |-> "none"]
    /\ direct_calls = 0
    /\ workers = [w \in Workers |-> IdleWorker]
    /\ qbase = <<>>
    /\ updates = 0

\* quizzes.views.submit_answer for one request.  is_correct is what
\* validate_answer returns for the posted answer; wrong_attempts is the
\* count the request carries.
SubmitAnswer(question, is_correct, wrong_attempts, time_spent) ==
    LET difficulty == QuestionBank[question]
        current_attempt_number == wrong_attempts + 1
        base_xp == service_final_xp(attempts, question, is_correct, time_spent)
        adaptive_reward ==
            retry_calculate_attempt_xp(IF is_correct THEN base_xp ELSE -base_xp,
                                       current_attempt_number, is_correct)
        current_state == get_user_state(level, attempts)
        p == SubmitProfile(level, xp, total_xp, streak_correct, adaptive_reward, is_correct)
        next_state == get_user_state(p.level, attempts)
        max_retries == get_max_retries(difficulty, attempts)
        wrong_after == IF is_correct THEN wrong_attempts ELSE wrong_attempts + 1
    IN  /\ Len(attempts) < MaxAttempts
        /\ UNCHANGED conc_vars
        /\ Len(attempts) + direct_calls < MaxOps
        /\ IF p.total_xp < 0
           THEN \* profile.save() rejects a negative PositiveIntegerField:
                \* the except branch answers 500 and nothing was written
                /\ resp' = [op |-> "submit_answer", success |-> FALSE]
                /\ UNCHANGED <<level, xp, total_xp, streak_correct,
                               last_difficulty, attempts, qtable, qlog, direct_calls>>
           ELSE /\ level' = p.level
                /\ xp' = p.xp
                /\ total_xp' = p.total_xp
                /\ streak_correct' = p.streak_correct
                /\ last_difficulty' = difficulty
                /\ qtable' = update_q_table(qtable, current_state, difficulty,
                                            adaptive_reward, next_state)
                /\ qlog' = <<update_q_table_log(qtable, current_state, difficulty,
                                                adaptive_reward, next_state)>>
                /\ attempts' = Append(attempts,
                                  [question |-> question, difficulty |-> difficulty,
                                   is_correct |-> is_correct, time_spent |-> time_spent])
                /\ resp' = [op |-> "submit_answer", success |-> TRUE,
                            is_correct |-> is_correct,
                            xp_change |-> adaptive_reward,
                            leveled_up |-> p.leveled_up,
                            new_level |-> p.new_level,
                            wrong_attempts |-> wrong_after,
                            current_attempt |-> current_attempt_number,
                            max_attempts |-> max_retries + 1,
                            should_advance |->
                                ~is_correct /\ should_auto_advance(wrong_after, max_retries),
                            show_hint |-> ~is_correct,
                            hint_data |->
                                IF is_correct THEN [level |-> "None"]
                                ELSE get_progressive_hint(current_attempt_number, max_retries),
                            correct_answer |-> answer_key(question)]
                /\ UNCHANGED direct_calls

\* The steps of submit_answer after profile.save() at which a write can
\* raise (a database error): the get_or_create of the Q entry, the
\* QLearningLog row of update_q_table, the AttemptLog row.
FailingSteps == {"q_entry", "q_log", "attempt_log"}

\* submit_answer for a request during which the write at failing_step
\* raises: the except branch answers 500; the view runs in no transaction,
\* so what was saved before the step stays saved.
SubmitAnswerFailing(question, is_correct, wrong_attempts, time_spent, failing_step) ==
    LET difficulty == QuestionBank[question]
        current_attempt_number == wrong_attempts + 1
        base_xp == service_final_xp(attempts, question, is_correct, time_spent)
        adaptive_reward ==
            retry_calculate_attempt_xp(IF is_correct THEN base_xp ELSE -base_xp,
                                       current_attempt_number, is_correct)
        current_state == get_user_state(level, attempts)
        p == SubmitProfile(level, xp, total_xp, streak_correct, adaptive_reward, is_correct)
        next_state == get_user_state(p.level, attempts)
    IN  /\ Len(attempts) < MaxAttempts
        /\ Len(attempts) + direct_calls < MaxOps
        /\ p.total_xp >= 0
        /\ direct_calls < MaxDirectCalls
        /\ direct_calls' = direct_calls + 1
        /\ level' = p.level
        /\ xp' = p.xp
        /\ total_xp' = p.total_xp
        /\ streak_correct' = p.streak_correct
        /\ last_difficulty' = difficulty
        /\ qtable' = IF failing_step = "q_entry" THEN qtable
                     ELSE update_q_table(qtable, current_state, difficulty,
                                         adaptive_reward, next_state)
        /\ qlog' = IF failing_step = "attempt_log"
                   THEN <<update_q_table_log(qtable, current_state, difficulty,
                                             adaptive_reward, next_state)>>
                   ELSE qlog
        /\ resp' = [op |-> "submit_answer", success |-> FALSE]
        /\ UNCHANGED attempts
        /\ UNCHANGED conc_vars

\* A call of profile.add_xp(amount).
AddXp(amount) ==
    LET p == add_xp(level, xp, total_xp, amount)
    IN  /\ direct_calls < MaxDirectCalls
        /\ Len(attempts) + direct_calls < MaxOps
        /\ UNCHANGED conc_vars
        /\ direct_calls' = direct_calls + 1
        /\ level' = p.level
        /\ xp' = p.xp
        /\ total_xp' = p.total_xp
        /\ resp' = [op |-> "add_xp", leveled_up |-> p.leveled_up]
        /\ UNCHANGED <<streak_correct, last_difficulty, attempts, qtable, qlog>>

\* LevelUpClaimView.post: can_level_up, then manual_level_up, then save.
LevelUpClaim ==
    LET can == can_level_up(level, xp)
        m == manual_level_up(level, xp)
    IN  IF ~can[1] \/ can[2] = "None" \/ ~m.leveled_up
        THEN /\ resp' = [op |-> "level_up_claim", success |-> FALSE]
             /\ UNCHANGED conc_vars
             /\ UNCHANGED <<level, xp, total_xp, streak_correct,
                            last_difficulty, attempts, qtable, qlog, direct_calls>>
        ELSE /\ level' = m.level
             /\ xp' = m.xp
             /\ resp' = [op |-> "level_up_claim", success |-> TRUE,
                         new_level |-> m.new_level]
             /\ UNCHANGED <<total_xp, streak_correct, last_difficulty, attempts,
                            qtable, qlog, direct_calls>>
             /\ UNCHANGED conc_vars

\* StudentProfileAdmin: an administrator edits the level field.
AdminEditLevel(new_level) ==
    /\ new_level # level
    /\ direct_calls < MaxDirectCalls
    /\ Len(attempts) + direct_calls < MaxOps
    /\ direct_calls' = direct_calls + 1
    /\ level' = new_level
    /\ resp' = [op |-> "admin_edit"]
    /\ UNCHANGED <<xp, total_xp, streak_correct, last_difficulty, attempts, qtable, qlog>>
    /\ UNCHANGED conc_vars

\* "question: None" in an answer that serves no question (ids start at 1)
NoQuestion == 0

\* ids of the questions the learner has an AttemptLog row for
attempted_question_ids(hist) == {hist[i].question : i \in 1..Len(hist)}

\* Question.objects.filter(difficulty__in=allowed_difficulties), the
\* attempted questions not excluded
unattempted_questions_all(allowed_difficulties, hist) ==
    {q \in 1..Len(QuestionBank) : QuestionBank[q] \in Range(allowed_difficulties)}

\* Question.objects.filter(difficulty__in=allowed_difficulties)
\*     .exclude(id__in=attempted_question_ids)
unattempted_questions(allowed_difficulties, hist) ==
    {q \in 1..Len(QuestionBank) : QuestionBank[q] \in Range(allowed_difficulties)}
        \ attempted_question_ids(hist)

\* the questions of set qs at one difficulty
AtDifficulty(qs, difficulty) == {q \in qs : QuestionBank[q] = difficulty}

\* get_next_question, the fallback loop entered when the selected
\* difficulty has no candidate: the first other allowed difficulty (from
\* position i on) with unattempted questions, or "None".
RECURSIVE ViewFallbackLoop(_, _, _, _)
ViewFallbackLoop(allowed_difficulties, i, selected_difficulty, unattempted) ==
    IF i > Len(allowed_difficulties) THEN "None"
    ELSE IF allowed_difficulties[i] # selected_difficulty
            /\ AtDifficulty(unattempted, allowed_difficulties[i]) # {}
         THEN allowed_difficulties[i]
         ELSE ViewFallbackLoop(allowed_difficulties, i + 1, selected_difficulty, unattempted)

\* quizzes.views.get_next_question for one request; rand_val and pick are
\* the draws of choose_action, the served question is the draw of
\* random.choice(candidate_questions).
GetNextQuestion(rand_val, pick) ==
    LET allowed_difficulties == ALLOWED_ACTIONS[level]
        unattempted == unattempted_questions(allowed_difficulties, attempts)
        state_hash == hash_state(state_tuple(level, attempts, streak_correct))
        chosen == choose_action(level, attempts, qtable, state_hash,
                                get_dynamic_epsilon(level, attempts),
                                last_difficulty, rand_val, pick)
        selected_difficulty ==
            IF AtDifficulty(unattempted, chosen) # {} THEN chosen
            ELSE ViewFallbackLoop(allowed_difficulties, 1, chosen, unattempted)
        candidate_questions == AtDifficulty(unattempted, selected_difficulty)
    IN  /\ IF unattempted = {}
           THEN resp' = [op |-> "get_next_question", success |-> FALSE,
                         completed |-> TRUE, question |-> NoQuestion]
           ELSE IF candidate_questions = {}
           THEN resp' = [op |-> "get_next_question", success |-> FALSE,
                         completed |-> FALSE, question |-> NoQuestion]
           ELSE \E selected_question \in candidate_questions :
                   resp' = [op |-> "get_next_question", success |-> TRUE,
                            completed |-> FALSE,
                            question |-> selected_question,
                            chosen |-> chosen,
                            state_hash |-> state_hash,
                            selected_difficulty |-> selected_difficulty]
        /\ UNCHANGED <<level, xp, total_xp, streak_correct, last_difficulty,
                       attempts, qtable, qlog, direct_calls>>
        /\ UNCHANGED conc_vars

\* pick_next_question, the loop over allowed_difficulties that follows the
\* "if not candidate_questions" test (it is not inside it): every other
\* allowed difficulty overwrites candidate_questions until one has
\* unattempted questions.
RECURSIVE ServiceFallbackLoop(_, _, _, _, _)
ServiceFallbackLoop(allowed_difficulties, i, selected_difficulty, new_questions, candidate_questions) ==
    IF i > Len(allowed_difficulties) THEN candidate_questions
    ELSE IF allowed_difficulties[i] # selected_difficulty
         THEN IF AtDifficulty(new_questions, allowed_difficulties[i]) # {}
              THEN AtDifficulty(new_questions, allowed_difficulties[i])
              ELSE ServiceFallbackLoop(allowed_difficulties, i + 1, selected_difficulty,
                                       new_questions, {})
         ELSE ServiceFallbackLoop(allowed_difficulties, i + 1, selected_difficulty,
                                  new_questions, candidate_questions)

\* QuizService.pick_next_question(profile, epsilon) for one call.
PickNextQuestion(epsilon, rand_val, pick) ==
    LET allowed_difficulties == ALLOWED_ACTIONS[level]
        new_questions == unattempted_questions(allowed_difficulties, attempts)
        state_hash == hash_state(state_tuple(level, attempts, streak_correct))
        chosen == choose_action(level, attempts, qtable, state_hash,
                                IF epsilon = NoEpsilon
                                THEN get_dynamic_epsilon(level, attempts)
                                ELSE epsilon,
                                last_difficulty, rand_val, pick)
        looped == ServiceFallbackLoop(allowed_difficulties, 1, chosen, new_questions,
                                      AtDifficulty(new_questions, chosen))
        candidate_questions == IF looped = {} THEN new_questions ELSE looped
    IN  /\ IF new_questions = {}
           THEN resp' = [op |-> "pick_next_question", success |-> FALSE,
                         completed |-> TRUE, question |-> NoQuestion]
           ELSE \E question \in candidate_questions :
                   resp' = [op |-> "pick_next_question", success |-> TRUE,
                            completed |-> FALSE,
                            question |-> question,
                            chosen |-> chosen,
                            state_hash |-> state_hash,
                            selected_difficulty |-> QuestionBank[question]]
        /\ UNCHANGED <<level, xp, total_xp, streak_correct, last_difficulty,
                       attempts, qtable, qlog, direct_calls>>
        /\ UNCHANGED conc_vars

Next ==
    \/ \E question \in 1..Len(QuestionBank), is_correct \in BOOLEAN,
          wrong_attempts \in WrongAttemptsChoices, time_spent \in TimeSpentChoices :
            SubmitAnswer(question, is_correct, wrong_attempts, time_spent)
    \/ \E amount \in AddXpAmounts : AddXp(amount)
    \/ LevelUpClaim
    \/ \E new_level \in Range(LEVEL_CHOICES) : AdminEditLevel(new_level)

Spec == Init /\ [][Next]_vars

-----------------------------------------------------------------------------
(* Submissions with the retry counter: a learner who only answers, every   *)
(* request carrying any in-session count of wrong attempts.                *)

\* wrong_attempts values a request carries: attempts 1 to 5, the range of
\* XP_MULTIPLIERS_BY_ATTEMPT and beyond the largest retry budget
RetryWrongAttempts == {0, 1, 2, 3, 4}

\* time_spent of these requests: above the 60 s of the speed bonus
RetryTimeChoices == {90}

NextRetry ==
    \E question \in 1..Len(QuestionBank), is_correct \in BOOLEAN,
       wrong_attempts \in RetryWrongAttempts, time_spent \in RetryTimeChoices :
        SubmitAnswer(question, is_correct, wrong_attempts, time_spent)

SpecRetry == Init /\ [][NextRetry]_vars

-----------------------------------------------------------------------------
(* Q updates of one learner run by several workers.  Each update is the    *)
(* sequence the code performs: get_or_create and the reads, then save().   *)
(* update_q_table runs in autocommit; update_q runs inside                 *)
(* transaction.atomic(), which takes no row lock (no select_for_update):   *)
(* on a read-committed store its save() overwrites whatever was committed  *)
(* since its read, on SQLite the second writer of two overlapping          *)
(* transactions gets "database is locked" instead.  Both outcomes are in   *)
(* the model.                                                              *)

\* state keys the updates are called with
StateKeys == {<<"s1">>, <<"s2">>}

\* the state whose entries the updates write
UpdatedStates == {<<"s1">>}

\* rewards the updates are called with: the XP of a first wrong attempt
\* and of a fast correct hard answer
RewardChoices == {-2, 22}

\* Q-tables the learner may already have: none, or every row at 0.0, at
\* the ceiling or at the floor of update_q_table.
AllKeys == StateKeys \X Range(EngineActions)
InitialTables ==
    {<<>>} \cup {[k \in AllKeys |-> v * QScale] : v \in {0, MAX_Q_VALUE, MIN_Q_VALUE}}

InitQ ==
    /\ level \in Range(LEVEL_CHOICES)
    /\ xp = 0
    /\ total_xp = 0
    /\ streak_correct = 0
    /\ last_difficulty = "easy"
    /\ attempts = <<>>
    /\ qtable \in InitialTables
    /\ qlog = <<>>
    /\ resp = [op |-> "none"]
    /\ direct_calls = 0
    /\ workers = [w \in Workers |-> IdleWorker]
    /\ qbase = qtable
    /\ updates = 0

profile_vars == <<level, xp, total_xp, streak_correct, last_difficulty, attempts,
                  resp, direct_calls>>

\* A worker is handed an update: update_q_table(...) when path = "views",
\* QLearningEngine.update_q(...) when path = "engine".
BeginUpdate(w, path, state, action, reward, next) ==
    /\ workers[w].pc = "idle"
    /\ updates < MaxUpdates
    /\ updates' = updates + 1
    /\ workers' = [workers EXCEPT ![w] =
                      [pc |-> "read", path |-> path, state |-> state,
                       action |-> action, reward |-> reward, next |-> next,
                       before |-> 0, max_next_q |-> 0,
                       new_q |-> 0, stale |-> FALSE]]
    /\ qbase' = IF \A v \in Workers : workers[v].pc = "idle" THEN qtable ELSE qbase
    /\ UNCHANGED <<qtable, qlog, profile_vars>>

\* get_or_create, the read of the entry and of the next state's entries,
\* and the computation of the value to save.
ReadEntry(w) ==
    LET u == workers[w]
        q1 == get_or_create_entry(qtable, u.state, u.action)
        before == q1[<<u.state, u.action>>]
        max_next_q == IF u.path = "views"
                      THEN ViewsMaxNextQ(q1, u.next)
                      ELSE EngineMaxNextQ(q1, u.next, level, attempts)
        new_q == IF u.path = "views"
                 THEN ViewsNewQ(before, u.reward, max_next_q)
                 ELSE EngineNewQ(before, u.reward, max_next_q)
    IN  /\ u.pc = "read"
        /\ qtable' = q1
        /\ workers' = [workers EXCEPT ![w].pc = "write", ![w].before = before,
                                      ![w].max_next_q = max_next_q,
                                      ![w].new_q = new_q]
        /\ UNCHANGED <<qlog, qbase, updates, profile_vars>>

\* current_entry.save(): the value computed from the earlier read is
\* written; every worker that has read and not yet written now holds a
\* stale value.
WriteEntry(w) ==
    LET u == workers[w]
    IN  /\ u.pc = "write"
        /\ qtable' = SaveEntry(qtable, u.state, u.action, u.new_q)
        /\ workers' = [v \in Workers |->
                          IF v = w THEN [u EXCEPT !.pc = "done"]
                          ELSE IF workers[v].pc = "write"
                               THEN [workers[v] EXCEPT !.stale = TRUE]
                               ELSE workers[v]]
        /\ qlog' = <<[state_hash |-> u.state, action |-> u.action,
                      reward |-> u.reward, q_value_before |-> u.before,
                      q_value_after |-> u.new_q, next_state_hash |-> u.next]>>
        /\ UNCHANGED <<qbase, updates, profile_vars>>

\* update_q on SQLite: the save() of a transaction that read before
\* another writer committed fails (OperationalError), the transaction is
\* rolled back and the exception leaves update_q.
AbortUpdate(w) ==
    LET u == workers[w]
    IN  /\ u.pc = "write"
        /\ u.path = "engine"
        /\ u.stale
        /\ workers' = [workers EXCEPT ![w].pc = "failed"]
        /\ UNCHANGED <<qtable, qlog, qbase, updates, profile_vars>>

\* The finished updates return to their callers.
ReturnAll ==
    /\ \A w \in Workers : workers[w].pc \in {"idle", "done", "failed"}
    /\ \E w \in Workers : workers[w].pc # "idle"
    /\ workers' = [w \in Workers |-> IdleWorker]
    /\ UNCHANGED <<qtable, qlog, qbase, updates, profile_vars>>

NextQ ==
    \/ \E w \in Workers, path \in {"views", "engine"}, state \in UpdatedStates,
          action \in Range(EngineActions), reward \in RewardChoices,
          next \in StateKeys \cup {NoState} :
            BeginUpdate(w, path, state, action, reward, next)
    \/ \E w \in Workers : ReadEntry(w)
    \/ \E w \in Workers : WriteEntry(w)
    \/ \E w \in Workers : AbortUpdate(w)
    \/ ReturnAll

SpecQ == InitQ /\ [][NextQ]_vars

-----------------------------------------------------------------------------
(* The policies called on given inputs: the level, the xp, the attempt     *)
(* history and the Q-table are drawn at the start, and every step is one   *)
(* call whose arguments and result are kept in resp.  The policies keep no *)
(* state of their own, so a behaviour is one call on the drawn inputs.     *)

\* an AttemptLog row at difficulty d (on the question of that difficulty)
AttemptRow(d, b) ==
    [question |-> CHOOSE i \in 1..Len(QuestionBank) : QuestionBank[i] = d,
     difficulty |-> d, is_correct |-> b, time_spent |-> 30]

\* histories at one difficulty, up to MaxHistLen rows
LongHistories ==
    UNION {UNION {{[i \in 1..n |-> AttemptRow(d, f[i])] : f \in [1..n -> BOOLEAN]}
                    : n \in 0..MaxHistLen}
              : d \in {"medium", "hard"}}

\* histories over all difficulties, up to MaxMixedLen rows
MixedHistories ==
    UNION {[1..n -> {AttemptRow(d, b) : d \in Range(EngineActions), b \in BOOLEAN}]
              : n \in 0..MaxMixedLen}

\* histories of two runs: up to MaxRunLen equal results at one difficulty,
\* then up to MaxRunLen equal results at another
RunHistories ==
    {[i \in 1..(n1 + n2) |->
         IF i <= n1 THEN AttemptRow(d1, b1) ELSE AttemptRow(d2, b2)] :
       n1 \in 1..MaxRunLen, n2 \in 1..MaxRunLen,
       d1 \in Range(EngineActions), d2 \in Range(EngineActions),
       b1 \in BOOLEAN, b2 \in BOOLEAN}

\* xp values on both sides of every promotion threshold
XpChoices == {0, 199, 200, 499, 500, 799, 800, 1000}

\* the state key choose_action is called with
ChosenState == <<"s1">>

\* Q-tables for that state: empty; a tie of easy and medium above hard;
\* a negative easy and a positive hard with medium missing; a tie of
\* medium and hard above a negative easy.
FnTables ==
    {<<>>,
     [k \in {ChosenState} \X {"easy", "medium", "hard"} |->
        IF k[2] = "hard" THEN 1000 ELSE 2000],
     [k \in {ChosenState} \X {"easy", "hard"} |->
        IF k[2] = "easy" THEN -1000 ELSE 3000],
     [k \in {ChosenState} \X {"easy", "medium", "hard"} |->
        IF k[2] = "easy" THEN -2000 ELSE 5000]}

\* epsilon arguments (thousandths) and random.random() draws (thousandths)
EpsilonChoices == {NoEpsilon, 0, 1000}
RandChoices == {0, 999}

InitFn ==
    /\ level \in Range(LEVEL_CHOICES)
    /\ \/ attempts \in LongHistories /\ xp = 0 /\ qtable = <<>>
       \/ attempts \in MixedHistories /\ Len(attempts) <= 1
             /\ xp \in XpChoices /\ qtable = <<>>
       \/ attempts \in MixedHistories /\ xp = 0 /\ qtable \in FnTables
       \/ attempts \in RunHistories /\ xp = 0 /\ qtable = <<>>
    /\ total_xp = xp
    /\ streak_correct = 0
    /\ last_difficulty = "easy"
    /\ qlog = <<>>
    /\ resp = [op |-> "none"]
    /\ direct_calls = 0
    /\ workers = [w \in Workers |-> IdleWorker]
    /\ qbase = <<>>
    /\ updates = 0

input_vars == <<level, xp, total_xp, streak_correct, last_difficulty, attempts,
                qtable, qlog, direct_calls, conc_vars>>

CallCanLevelUp ==
    /\ resp.op = "none"
    /\ resp' = [op |-> "can_level_up", result |-> can_level_up(level, xp)]
    /\ UNCHANGED input_vars

CallShouldLevelDown ==
    /\ resp.op = "none"
    /\ resp' = [op |-> "should_level_down", result |-> should_level_down(level, attempts)]
    /\ UNCHANGED input_vars

CallGetDynamicEpsilon ==
    /\ resp.op = "none"
    /\ resp' = [op |-> "get_dynamic_epsilon",
                result |-> get_dynamic_epsilon(level, attempts)]
    /\ UNCHANGED input_vars

CallGetAllowedActions(current_difficulty) ==
    /\ resp.op = "none"
    /\ resp' = [op |-> "get_allowed_actions",
                current_difficulty |-> current_difficulty,
                result |-> get_allowed_actions(level, attempts, current_difficulty)]
    /\ UNCHANGED input_vars

CallChooseAction(epsilon, current_difficulty, rand_val, pick) ==
    LET eps == IF epsilon = NoEpsilon THEN get_dynamic_epsilon(level, attempts)
               ELSE epsilon
    IN  /\ resp.op = "none"
        /\ Len(attempts) <= MaxMixedLen
        /\ resp' = [op |-> "choose_action", epsilon |-> epsilon,
                    current_difficulty |-> current_difficulty,
                    rand_val |-> rand_val, pick |-> pick,
                    result |-> choose_action(level, attempts, qtable, ChosenState,
                                             eps, current_difficulty, rand_val, pick)]
        /\ UNCHANGED input_vars

NextFn ==
    \/ CallCanLevelUp
    \/ CallShouldLevelDown
    \/ CallGetDynamicEpsilon
    \/ \E current_difficulty \in Range(EngineActions) \cup {"None"} :
            CallGetAllowedActions(current_difficulty)
    \/ \E epsilon \in EpsilonChoices,
          current_difficulty \in Range(EngineActions) \cup {"None"},
          rand_val \in RandChoices, pick \in 0..(Len(EngineActions) - 1) :
            CallChooseAction(epsilon, current_difficulty, rand_val, pick)

SpecFn == InitFn /\ [][NextFn]_vars

-----------------------------------------------------------------------------
(* choose_action calls during which reads or log writes fail *)

\* the fault combinations of one call
FaultChoices ==
    {{"history"}, {"qtable"}, {"decision_log"}, {"adaptation_log"},
     {"decision_log", "adaptation_log"}}

InitFault ==
    /\ InitFn
    /\ Len(attempts) <= MaxFaultHistLen

CallChooseActionFaulty(faults, epsilon, current_difficulty, rand_val, pick) ==
    LET outcome == choose_action_outcome(faults, level, attempts, qtable, ChosenState,
                                         epsilon, current_difficulty, rand_val, pick)
    IN  /\ resp.op = "none"
        /\ resp' = [op |-> "choose_action_faulty", faults |-> faults,
                    epsilon |-> epsilon,
                    current_difficulty |-> current_difficulty,
                    rand_val |-> rand_val, pick |-> pick,
                    raised |-> outcome.raised, result |-> outcome.result,
                    decision_rows |-> outcome.decision_rows,
                    adaptation_rows |-> outcome.adaptation_rows,
                    struck |-> outcome.struck]
        /\ UNCHANGED input_vars

NextFault ==
    \E faults \in FaultChoices, epsilon \in EpsilonChoices,
       current_difficulty \in Range(EngineActions) \cup {"None"},
       rand_val \in RandChoices, pick \in 0..(Len(EngineActions) - 1) :
        CallChooseActionFaulty(faults, epsilon, current_difficulty, rand_val, pick)

SpecFault == InitFault /\ [][NextFault]_vars

-----------------------------------------------------------------------------
(* Serving questions between submissions *)

\* A learner without attempts, at the level the profile was given.
InitServe ==
    /\ level \in Range(LEVEL_CHOICES)
    /\ xp = 0
    /\ total_xp = 0
    /\ streak_correct = 0
    /\ last_difficulty = "easy"
    /\ attempts = <<>>
    /\ qtable = <<>>
    /\ qlog = <<>>
    /\ resp = [op |-> "none"]
    /\ direct_calls = 0
    /\ workers = [w \in Workers |-> IdleWorker]
    /\ qbase = <<>>
    /\ updates = 0

NextServe ==
    \/ \E question \in 1..Len(QuestionBank), is_correct \in BOOLEAN,
          wrong_attempts \in WrongAttemptsChoices, time_spent \in TimeSpentChoices :
            SubmitAnswer(question, is_correct, wrong_attempts, time_spent)
    \/ \E rand_val \in RandChoices, pick \in 0..(Len(EngineActions) - 1) :
            GetNextQuestion(rand_val, pick)
    \/ \E epsilon \in EpsilonChoices, rand_val \in RandChoices,
          pick \in 0..(Len(EngineActions) - 1) :
            PickNextQuestion(epsilon, rand_val, pick)

SpecServe == InitServe /\ [][NextServe]_vars

-----------------------------------------------------------------------------
(* Submissions during which a write fails *)

NextAtomic ==
    \/ \E question \in 1..Len(QuestionBank), is_correct \in BOOLEAN,
          wrong_attempts \in WrongAttemptsChoices, time_spent \in TimeSpentChoices :
            SubmitAnswer(question, is_correct, wrong_attempts, time_spent)
    \/ \E question \in 1..Len(QuestionBank), is_correct \in BOOLEAN,
          wrong_attempts \in WrongAttemptsChoices, time_spent \in TimeSpentChoices,
          failing_step \in FailingSteps :
            SubmitAnswerFailing(question, is_correct, wrong_attempts, time_spent,
                                failing_step)

SpecAtomic == Init /\ [][NextAtomic]_vars

-----------------------------------------------------------------------------
(* get_consecutive_performance on drawn histories *)

\* the windows the callers pass: MAX_CONSECUTIVE_WRONG and the default 5
WindowChoices == {MAX_CONSECUTIVE_WRONG, 5}

InitConsecutive ==
    /\ level = "beginner"
    /\ xp = 0
    /\ total_xp = 0
    /\ streak_correct = 0
    /\ last_difficulty = "easy"
    /\ attempts \in MixedHistories \cup RunHistories
    /\ qtable = <<>>
    /\ qlog = <<>>
    /\ resp = [op |-> "none"]
    /\ direct_calls = 0
    /\ workers = [w \in Workers |-> IdleWorker]
    /\ qbase = <<>>
    /\ updates = 0

CallGetConsecutivePerformance(difficulty, window) ==
    /\ resp.op = "none"
    /\ resp' = [op |-> "get_consecutive_performance",
                difficulty |-> difficulty, window |-> window,
                result |-> get_consecutive_performance(attempts, difficulty, window)]
    /\ UNCHANGED input_vars

NextConsecutive ==
    \E difficulty \in Range(EngineActions), window \in WindowChoices :
        CallGetConsecutivePerformance(difficulty, window)

SpecConsecutive == InitConsecutive /\ [][NextConsecutive]_vars

-----------------------------------------------------------------------------
(* get_max_retries for learners with long histories *)

\* numbers of recorded attempts
TotalAttemptsChoices == {0, 1, 2, 3, 4, 10, 999, 1000, 1001}

\* numbers of correct ones among total: none, all, and those around half
CorrectAttemptsChoices(total) ==
    {c \in 0..total : c = 0 \/ c = total \/ (2 * c - total) \in -4..4}

InitBudget ==
    /\ level = "beginner"
    /\ xp = 0
    /\ total_xp = 0
    /\ streak_correct = 0
    /\ last_difficulty = "easy"
    /\ attempts = <<>>
    /\ qtable = <<>>
    /\ qlog = <<>>
    /\ resp \in UNION {{[op |-> "arguments", difficulty |-> d,
                          correct_attempts |-> c, total_attempts |-> t] :
                            d \in Range(EngineActions),
                            c \in CorrectAttemptsChoices(t)} :
                        t \in TotalAttemptsChoices}
    /\ direct_calls = 0
    /\ workers = [w \in Workers |-> IdleWorker]
    /\ qbase = <<>>
    /\ updates = 0

CallGetMaxRetries ==
    /\ resp.op = "arguments"
    /\ resp' = [op |-> "get_max_retries",
                difficulty |-> resp.difficulty,
                correct_attempts |-> resp.correct_attempts,
                total_attempts |-> resp.total_attempts,
                result |-> get_max_retries_of_counts(resp.difficulty,
                               resp.correct_attempts, resp.total_attempts)]
    /\ UNCHANGED input_vars

NextBudget == CallGetMaxRetries

SpecBudget == InitBudget /\ [][NextBudget]_vars

-----------------------------------------------------------------------------
(* get_hint_for_question on drawn arguments *)

InitHint ==
    /\ level = "beginner"
    /\ xp = 0
    /\ total_xp = 0
    /\ streak_correct = 0
    /\ last_difficulty = "easy"
    /\ attempts = <<>>
    /\ qtable = <<>>
    /\ qlog = <<>>
    /\ resp \in {[op |-> "arguments", difficulty |-> d, wrong_count |-> n] :
                    d \in Range(EngineActions), n \in 0..MaxWrongCount}
    /\ direct_calls = 0
    /\ workers = [w \in Workers |-> IdleWorker]
    /\ qbase = <<>>
    /\ updates = 0

CallGetHintForQuestion ==
    /\ resp.op = "arguments"
    /\ resp' = [op |-> "get_hint_for_question",
                difficulty |-> resp.difficulty,
                wrong_count |-> resp.wrong_count,
                result |-> get_hint_for_question(resp.difficulty, resp.wrong_count)]
    /\ UNCHANGED input_vars

NextHint == CallGetHintForQuestion

SpecHint == InitHint /\ [][NextHint]_vars

-----------------------------------------------------------------------------
(* Claims about the Q updates (SpecQ) *)

\* The table after the update of worker record u has run alone on table q.
SeqApply(q, u) ==
    IF u.path = "views"
    THEN update_q_table(q, u.state, u.action, u.reward, u.next)
    ELSE update_q(q, u.state, u.action, u.reward, u.next, level, attempts)

Finished(u) == u.pc \in {"done", "failed"}

\* C1: when two updates of the same (state, action) key have both run,
\* the stored Q-value is the one that results from applying the two
\* updates one after the other, in one order or the other, to the table
\* they started from: neither update is lost.
C1_NoLostUpdate ==
    LET a == workers["w1"]
        b == workers["w2"]
        k == <<a.state, a.action>>
    IN  (Finished(a) /\ Finished(b) /\ a.state = b.state /\ a.action = b.action)
            => qtable[k] \in {SeqApply(SeqApply(qbase, a), b)[k],
                              SeqApply(SeqApply(qbase, b), a)[k]}

\* C2: every stored Q-value lies in [MIN_Q_VALUE, MAX_Q_VALUE], whichever
\* update wrote it.
C2_QWithinRange ==
    \A k \in DOMAIN qtable :
        MIN_Q_VALUE * QScale <= qtable[k] /\ qtable[k] <= MAX_Q_VALUE * QScale

-----------------------------------------------------------------------------
(* Claims about the profile and the answer handler (Spec) *)

LevelIndex(l) == CHOOSE i \in 1..Len(LEVEL_CHOICES) : LEVEL_CHOICES[i] = l

\* the difficulty a level is judged on for demotion
JudgedDifficulty(l) == IF l = "intermediate" THEN "medium" ELSE "hard"

\* C3: when submit_answer records a wrong answer of an intermediate
\* learner on medium (an advanced learner on hard) that makes the newest
\* answers at that difficulty three or more wrong in a row, the stored
\* level is one lower after the request.
C3_FastPathDemotes ==
    [][(/\ resp'.op = "submit_answer"
        /\ resp'.success
        /\ level \in {"intermediate", "advanced"}
        /\ ~resp'.is_correct
        /\ last_difficulty' = JudgedDifficulty(level)
        /\ Len(attempts') = Len(attempts) + 1
        /\ get_consecutive_performance(attempts', JudgedDifficulty(level),
                                       QUICK_CHECK_WINDOW).consecutive_wrong
               >= MAX_CONSECUTIVE_WRONG)
          => LevelIndex(level') = LevelIndex(level) - 1]_vars

PromotingOps == {"submit_answer", "add_xp", "level_up_claim"}

C5_XpNonNegative == xp >= 0

\* C5 witness: an XP loss larger than the xp held has been applied (a
\* negative add_xp, which shows in total_xp) and xp stands at 0.
C5_Witness == resp.op = "add_xp" /\ xp = 0 /\ total_xp < 0

\* C6: no step makes total_xp smaller.
C6_TotalXpMonotonic == [][total_xp' >= total_xp]_vars

-----------------------------------------------------------------------------
(* Claims about the policies (SpecFn) *)

DifficultyIndex(d) == CHOOSE i \in 1..Len(EngineActions) : EngineActions[i] = d

\* C7: get_allowed_actions returns a non-empty list of actions of the
\* level's base list, and every action of the base list it leaves out is
\* harder than the current difficulty.
C7_AllowedWithinBase ==
    resp.op = "get_allowed_actions" =>
        /\ resp.result # <<>>
        /\ Range(resp.result) \subseteq Range(ALLOWED_ACTIONS[level])
        /\ \A a \in Range(ALLOWED_ACTIONS[level]) \ Range(resp.result) :
              /\ resp.current_difficulty # "None"
              /\ DifficultyIndex(a) > DifficultyIndex(resp.current_difficulty)

\* C8: when the allowed list of a choose_action call has one action, the
\* call returns that action, whatever epsilon, the random draws and the
\* stored Q-values are.
C8_SingleAllowedIsChosen ==
    resp.op = "choose_action" =>
        LET allowed == get_allowed_actions(level, attempts, resp.current_difficulty)
        IN  Len(allowed) = 1 => resp.result = allowed[1]

\* C8 witness: a call with one allowed action that explores (epsilon 1.0)
\* with a draw pointing at another action, while another action has the
\* larger stored Q-value.
C8_Witness ==
    /\ resp.op = "choose_action"
    /\ Len(get_allowed_actions(level, attempts, resp.current_difficulty)) = 1
    /\ resp.epsilon = 1000
    /\ resp.rand_val < resp.epsilon
    /\ EngineActions[resp.pick + 1] # resp.result
    /\ \E a \in Range(EngineActions) :
          QValueOrZero(qtable, ChosenState, a)
              > QValueOrZero(qtable, ChosenState, resp.result)

JudgedAttempts == ByDifficulty(attempts, JudgedDifficulty(level))

\* the newest three attempts at the judged difficulty are all wrong
FastPathHolds ==
    LET n == Len(JudgedAttempts)
    IN  n >= 3 /\ \A i \in (n - 2)..n : ~JudgedAttempts[i].is_correct

\* at least 10 attempts at the judged difficulty, and at most 30%
\* (intermediate) or 50% (advanced) of the newest 10 are correct
WindowPathHolds ==
    LET n == Len(JudgedAttempts)
        correct == Cardinality({i \in (n - 9)..n : JudgedAttempts[i].is_correct})
    IN  n >= 10 /\ correct * 100 <= (IF level = "intermediate" THEN 30 ELSE 50) * 10

\* C10: should_level_down answers (True, the level one below) exactly for
\* an intermediate or advanced learner whose attempts at the judged
\* difficulty satisfy the fast path or the windowed path, and
\* (False, None) otherwise; never True for a beginner.
C10_ShouldLevelDownExactly ==
    resp.op = "should_level_down" =>
        IF level \in {"intermediate", "advanced"} /\ (FastPathHolds \/ WindowPathHolds)
        THEN resp.result = <<TRUE, LEVEL_CHOICES[LevelIndex(level) - 1]>>
        ELSE resp.result = <<FALSE, "None">>

\* C10 witness: a demotion by the windowed path alone, on exactly 30% of
\* the newest 10 medium attempts, the newest one being correct.
C10_Witness ==
    /\ resp.op = "should_level_down"
    /\ level = "intermediate"
    /\ resp.result[1]
    /\ ~FastPathHolds
    /\ Len(JudgedAttempts) >= 10
    /\ JudgedAttempts[Len(JudgedAttempts)].is_correct
    /\ Cardinality({i \in (Len(JudgedAttempts) - 9)..Len(JudgedAttempts) :
                        JudgedAttempts[i].is_correct}) = 3

-----------------------------------------------------------------------------
(* Claims about retries and XP (SpecRetry) *)

\* the AttemptLog row the last submission created
LastRow == attempts[Len(attempts)]

\* the rows on the question of the last submission, that submission included
RowsOnLastQuestion == SelectSeq(attempts, LAMBDA a : a.question = LastRow.question)

C14_QRewardIsRlReward ==
    (resp.op = "submit_answer" /\ resp.success) =>
        qlog[1].reward * QScale =
            calculate_q_reward(LastRow.is_correct, LastRow.difficulty,
                               streak_correct, LastRow.time_spent)

-----------------------------------------------------------------------------
(* Claims about the engine (SpecFn, SpecQ) *)

\* the newest three attempts at difficulty d exist and are all wrong
ThreeWrongLead(d) ==
    LET at_d == ByDifficulty(attempts, d)
        n == Len(at_d)
    IN  n >= 3 /\ \A i \in (n - 2)..n : ~at_d[i].is_correct

\* C15: when the newest three (or more) attempts at some difficulty are
\* all wrong, get_dynamic_epsilon returns half the base epsilon of the
\* learner's level, whatever the results at the other difficulties are.
C15_EpsilonHalved ==
    (resp.op = "get_dynamic_epsilon" /\ \E d \in Range(EngineActions) : ThreeWrongLead(d))
        => resp.result * 2 = EPSILON_BY_LEVEL[level]

\* the epsilon a recorded choose_action call compared its draw with
EpsilonUsed ==
    IF resp.epsilon = NoEpsilon THEN get_dynamic_epsilon(level, attempts)
    ELSE resp.epsilon

\* a recorded choose_action call that took the exploitation branch
Exploited ==
    /\ resp.op = "choose_action"
    /\ Len(get_allowed_actions(level, attempts, resp.current_difficulty)) > 1
    /\ ~(resp.rand_val < EpsilonUsed)

\* C16: the exploitation branch returns an allowed action whose Q-value
\* (0.0 for a missing entry) is maximal among the allowed actions, and of
\* several maximal ones the first in the order easy, medium, hard.
C16_ExploitPicksFirstBest ==
    Exploited =>
        LET allowed == Range(get_allowed_actions(level, attempts, resp.current_difficulty))
            val(a) == IF <<ChosenState, a>> \in DOMAIN qtable
                      THEN qtable[<<ChosenState, a>>] ELSE 0
        IN  /\ resp.result \in allowed
            /\ \A a \in allowed : val(a) <= val(resp.result)
            /\ \A a \in allowed :
                  DifficultyIndex(a) < DifficultyIndex(resp.result)
                      => val(a) < val(resp.result)

\* C16 witness: an exploiting call where a second allowed action has the
\* same stored (not defaulted) Q-value as the returned one and another
\* allowed action has a smaller one.
C16_Witness ==
    /\ Exploited
    /\ LET allowed == Range(get_allowed_actions(level, attempts, resp.current_difficulty))
       IN  /\ <<ChosenState, resp.result>> \in DOMAIN qtable
           /\ \E a \in allowed \ {resp.result} :
                 /\ <<ChosenState, a>> \in DOMAIN qtable
                 /\ qtable[<<ChosenState, a>>] = qtable[<<ChosenState, resp.result>>]
           /\ \E a \in allowed :
                 QValueOrZero(qtable, ChosenState, a)
                     < QValueOrZero(qtable, ChosenState, resp.result)

\* The maximum, over the allowed actions of the learner, of the stored
\* Q-value at state key next with 0 for a missing entry; 0 without a next
\* state.
MaxOverAllowed(q, next) ==
    IF next = NoState THEN 0
    ELSE LET allowed == Range(ALLOWED_ACTIONS[level])
             val(a) == IF <<next, a>> \in DOMAIN q THEN q[<<next, a>>] ELSE 0
         IN  CHOOSE m \in {val(a) : a \in allowed} : \A a \in allowed : val(a) <= m

\* C17: the maxNextQ an update (of either path) computes when it reads the
\* table is the maximum over exactly the allowed actions of the next state
\* of the stored Q-value, 0 for a missing entry, and 0 without next state.
C17_MaxNextOverAllowed ==
    [][\A w \in Workers :
          (workers[w].pc = "read" /\ workers'[w].pc = "write")
              => workers'[w].max_next_q = MaxOverAllowed(qtable', workers[w].next)]_vars

\* reward + gamma * max_next_q of the update worker record u computed,
\* in ten-thousandths
TargetOf(u) == u.reward * QScale * 10 + DISCOUNT_FACTOR_TENTHS * u.max_next_q

\* worker w has just read the table and computed the value it will store
JustRead(w) == workers[w].pc = "read" /\ workers'[w].pc = "write"

\* C18 (as stated): in every Q update, when reward + gamma * maxNextQ is
\* greater than the current Q-value the value stored is strictly greater
\* than the value before, and when it is smaller the value stored is
\* strictly smaller.
C18_UpdateDirection ==
    [][\A w \in Workers : JustRead(w) =>
          LET u == workers'[w]
          IN  /\ TargetOf(u) > u.before * 10 => u.new_q > u.before
              /\ TargetOf(u) < u.before * 10 => u.new_q < u.before]_vars

\* C18 (amended): the value stored moves strictly towards
\* reward + gamma * maxNextQ, except where the clamp of update_q_table
\* holds it: with a value before at or above MAX_Q_VALUE and a greater
\* target the value stored is MAX_Q_VALUE, and with a value before at or
\* below MIN_Q_VALUE and a smaller target it is MIN_Q_VALUE.
C18_UpdateDirectionUnlessClamped ==
    [][\A w \in Workers : JustRead(w) =>
          LET u == workers'[w]
          IN  /\ TargetOf(u) > u.before * 10 =>
                    \/ u.new_q > u.before
                    \/ /\ u.path = "views"
                       /\ u.before >= MAX_Q_VALUE * QScale
                       /\ u.new_q = MAX_Q_VALUE * QScale
              /\ TargetOf(u) < u.before * 10 =>
                    \/ u.new_q < u.before
                    \/ /\ u.path = "views"
                       /\ u.before <= MIN_Q_VALUE * QScale
                       /\ u.new_q = MIN_Q_VALUE * QScale]_vars

\* C18 witness: two updates have computed their values, one through
\* update_q_table that read the ceiling with a greater target and keeps
\* the ceiling, one that read a value below its target and stores a
\* strictly greater one.
C18_Witness ==
    \E w1 \in Workers, w2 \in Workers :
        /\ workers[w1].pc = "write" /\ workers[w2].pc = "write"
        /\ workers[w1].path = "views"
        /\ workers[w1].before = MAX_Q_VALUE * QScale
        /\ TargetOf(workers[w1]) > workers[w1].before * 10
        /\ workers[w1].new_q = workers[w1].before
        /\ TargetOf(workers[w2]) > workers[w2].before * 10
        /\ workers[w2].new_q > workers[w2].before

-----------------------------------------------------------------------------
(* Claims about failures during choose_action (SpecFault) *)

\* C19: when a query of the attempt history or of the Q-table fails during
\* a choose_action call, the failure leaves the call as an exception; no
\* default epsilon, default allowed list or 0.0 Q-value stands in for it.
C19_ReadFailurePropagates ==
    (resp.op = "choose_action_faulty" /\ resp.struck \cap {"history", "qtable"} # {})
        => resp.raised

\* C20: when the write of the decision row or of the adaptation row fails
\* (and nothing else does), choose_action raises nothing and returns the
\* action it returns when the writes succeed.
C20_LogFailureHarmless ==
    (/\ resp.op = "choose_action_faulty"
     /\ resp.struck # {}
     /\ resp.struck \subseteq {"decision_log", "adaptation_log"})
        => /\ ~resp.raised
           /\ resp.result = choose_action(level, attempts, qtable, ChosenState,
                                 IF resp.epsilon = NoEpsilon
                                 THEN get_dynamic_epsilon(level, attempts)
                                 ELSE resp.epsilon,
                                 resp.current_difficulty, resp.rand_val, resp.pick)

\* C20 witness: an exploiting call that changes the difficulty, during
\* which both the decision write and the adaptation write failed, and
\* that returned an action and wrote no row.
C20_Witness ==
    /\ resp.op = "choose_action_faulty"
    /\ resp.struck = {"decision_log", "adaptation_log"}
    /\ ~(resp.rand_val < EpsilonUsed)
    /\ ~resp.raised
    /\ resp.result \in Range(EngineActions)
    /\ resp.result # resp.current_difficulty
    /\ resp.decision_rows = <<>>
    /\ resp.adaptation_rows = <<>>

-----------------------------------------------------------------------------
(* Claims about get_consecutive_performance (SpecConsecutive) *)

\* the outcomes of the attempts at the difficulty of the recorded call,
\* newest first, cut at its window
CheckedOutcomes ==
    LET at_difficulty == SelectSeq(attempts, LAMBDA a : a.difficulty = resp.difficulty)
        n == Len(at_difficulty)
        k == IF n < resp.window THEN n ELSE resp.window
    IN  [i \in 1..k |-> at_difficulty[n + 1 - i].is_correct]

\* the number of leading outcomes b of CheckedOutcomes
LeadingOutcomes(b) ==
    Cardinality({k \in 1..Len(CheckedOutcomes) :
                    \A i \in 1..k : CheckedOutcomes[i] = b})

\* C26: get_consecutive_performance returns the length of the leading run
\* of identical outcomes of the newest attempts at the difficulty as
\* consecutive_correct or consecutive_wrong, the other being 0, never more
\* than the window, with last_result the newest outcome; without attempts
\* both counts are 0.
C26_LeadingRun ==
    resp.op = "get_consecutive_performance" =>
        /\ resp.result.consecutive_correct = LeadingOutcomes(TRUE)
        /\ resp.result.consecutive_wrong = LeadingOutcomes(FALSE)
        /\ resp.result.consecutive_correct = 0 \/ resp.result.consecutive_wrong = 0
        /\ resp.result.consecutive_correct <= resp.window
        /\ resp.result.consecutive_wrong <= resp.window
        /\ CheckedOutcomes # <<>> =>
              resp.result.last_result = (IF CheckedOutcomes[1] THEN "True" ELSE "False")
        /\ CheckedOutcomes = <<>> =>
              (resp.result.consecutive_correct = 0 /\ resp.result.consecutive_wrong = 0)

\* C26 witness: a call whose run of newest wrong answers stops at a
\* correct answer inside the window, the older attempts at the difficulty
\* being correct ones
C26_Witness ==
    /\ resp.op = "get_consecutive_performance"
    /\ resp.result.consecutive_wrong >= 2
    /\ resp.result.consecutive_wrong < Len(CheckedOutcomes)
    /\ resp.result.last_result = "False"

-----------------------------------------------------------------------------
(* Claims about the retry budget (SpecBudget) *)

\* C24: get_max_retries returns 1, 2 or 3 for an easy, medium or hard
\* question, plus one exactly when the learner's overall accuracy (0
\* without attempts) is below 50%.
C24_RetryBudget ==
    resp.op = "get_max_retries" =>
        LET base == CASE resp.difficulty = "easy" -> 1
                      [] resp.difficulty = "medium" -> 2
                      [] resp.difficulty = "hard" -> 3
            below_half == \/ resp.total_attempts = 0
                          \/ 2 * resp.correct_attempts < resp.total_attempts
        IN  resp.result = base + (IF below_half THEN 1 ELSE 0)

-----------------------------------------------------------------------------
(* Claims about hints *)

\* C22: get_hint_for_question gives an easy question a hint at wrong
\* counts 1, 2 and 3 and none above 3; a medium question a hint at every
\* count of 1 or more; a hard question a hint at every count of 2 or more
\* and none at 1; and no hint at count 0.
C22_HintLadderExhausts ==
    resp.op = "get_hint_for_question" =>
        LET has_hint == resp.result # "None"
            n == resp.wrong_count
        IN  /\ resp.difficulty = "easy" => (has_hint <=> n \in 1..3)
            /\ resp.difficulty = "medium" => (has_hint <=> n >= 1)
            /\ resp.difficulty = "hard" => (has_hint <=> n >= 2)

\* the response of a wrong submission hands the answer to the learner: the
\* hint is at the level "answer", or the response carries the answer key
AnswerRevealed ==
    \/ (resp.hint_data.level = "answer" /\ resp.hint_data.show_answer)
    \/ resp.correct_answer # "None"

-----------------------------------------------------------------------------
(* Claims about serving questions (SpecServe) *)

\* the last request was get_next_question or pick_next_question
Served == resp.op \in {"get_next_question", "pick_next_question"}

\* the questions of the bank at the difficulties allowed for the level
LevelQuestions ==
    {q \in 1..Len(QuestionBank) : QuestionBank[q] \in Range(ALLOWED_ACTIONS[level])}

\* the questions the learner has a recorded submission for
Answered == {attempts[i].question : i \in 1..Len(attempts)}

C29_ServesChosenDifficulty ==
    (Served /\ resp.question # NoQuestion) =>
        ((\E q \in 1..Len(QuestionBank) :
              q \notin Answered /\ QuestionBank[q] = resp.chosen)
            => QuestionBank[resp.question] = resp.chosen)

\* the table key get_user_state gives the learner in the current state
CurrentLearningKey == get_user_state(level, attempts)

\* C28: the key under which submit_answer stores the update for a learner's
\* state is the key choose_action reads when a question is selected for a
\* learner in that state.
C28_SameKeyForLearningAndSelection ==
    (Served /\ resp.question # NoQuestion) => resp.state_hash = CurrentLearningKey

\* C25: for a learner without recorded attempts the state of action
\* selection and the state of the Q update carry neutral mid values in
\* their accuracy components, not the lowest bucket 0.
C25_NeutralDefaults ==
    /\ (Served /\ resp.question # NoQuestion /\ attempts = <<>>)
          => \A i \in 2..5 : resp.state_hash[2][i] \in {1, 2}
    /\ (resp.op = "submit_answer" /\ resp.success /\ Len(attempts) = 1)
          => \A i \in 3..6 : qlog[1].state_hash[i] = 500

-----------------------------------------------------------------------------
(* Claims about submit_answer as a unit of work *)

\* C30: the next state of the Q update of a submission is derived from the
\* history that includes the submitted answer.
C30_NextStateSeesAttempt ==
    (resp.op = "submit_answer" /\ resp.success)
        => qlog[1].next_state_hash = get_user_state(level, attempts)

\* C27: a submit_answer request that answers with an error leaves the
\* profile (xp, total_xp, level, streak), the Q-table and the attempt
\* history as they were before the request.
C27_AllOrNothing ==
    [][(resp'.op = "submit_answer" /\ ~resp'.success)
          => UNCHANGED <<xp, total_xp, level, streak_correct, qtable, attempts>>]_vars

====
